---- MODULE Spec2Model ----
(***************************************************************************)
(* SparseVec<T> of src/src/lib.rs: a Range Index (rangemap::RangeMap from  *)
(* address ranges to storage keys), a Block Store (HashMap from key to     *)
(* (range, buffer)) and a key counter, with insert / get / get_mut /       *)
(* overlaps / ranges / stored_len.                                         *)
(***************************************************************************)
EXTENDS Integers, Sequences, FiniteSets, TLC

\* sv: the SparseVec value; mem: for every address the element last written
\* to it (0: none); ret: the last insert or write through get_mut, with,
\* for an insert, whether the container was empty before it and whether
\* the insert met the condition of the split.
VARIABLES sv, mem, ret

vars == <<sv, mem, ret>>

\* ---------------------------------------------------------------- bounds
\* Addresses used by the explored calls are 0 .. MaxAddr.
MaxAddr == 3
\* Longest inserted sequence.
MaxLen == 2
\* Element values are 1 .. MaxVal.
MaxVal == 2
\* No insert is started once key_counter has reached MaxKey.
MaxKey == 3

Addrs == 0..(MaxAddr - 1)
Vals == 1..MaxVal
Datas == UNION {[1..n -> Vals] : n \in 0..MaxLen}

\* ---------------------------------------------------------------- ranges
\* std::ops::Range<u64>: start..end, empty when start >= end.
Range(s, e) == [start |-> s, end |-> e]
is_empty(r) == r.start >= r.end

Min(S) == CHOOSE x \in S : \A y \in S : x <= y
Max(S) == CHOOSE x \in S : \A y \in S : x >= y

\* Option<X> as a sequence of length at most one.
None == <<>>
Some(x) == <<x>>

\* ------------------------------------------------- the Range Index (map)
\* A RangeMap<u64, usize> is the set of its (range, key) entries.
Entry(r, k) == [start |-> r.start, end |-> r.end, key |-> k]
EntryRange(e) == Range(e.start, e.end)

\* RangeMap::iter(): the entries in ascending order of start.
RECURSIVE iter(_)
iter(m) ==
  IF m = {} THEN <<>>
  ELSE LET first == CHOOSE e \in m : \A f \in m : e.start <= f.start
       IN <<first>> \o iter(m \ {first})

\* RangeMap::get_key_value(&point): the entry whose range covers point.
get_key_value(m, point) ==
  LET hit == {e \in m : e.start <= point /\ point < e.end}
  IN IF hit = {} THEN None ELSE Some(CHOOSE e \in hit : TRUE)

\* RangeMap::get(&point): the key of the entry covering point.
map_get(m, point) ==
  LET kv == get_key_value(m, point)
  IN IF kv = None THEN None ELSE Some(kv[1].key)

\* The pieces of entry e left outside range r.
Clip(e, r) ==
  IF e.start < r.end /\ r.start < e.end
  THEN (IF e.start < r.start THEN {Entry(Range(e.start, r.start), e.key)} ELSE {})
       \cup (IF e.end > r.end THEN {Entry(Range(r.end, e.end), e.key)} ELSE {})
  ELSE {e}

\* RangeMap::insert(range, value): stored entries with the same value that
\* overlap or touch the range are coalesced with it; stored entries with
\* another value are cut back to what lies outside it.
map_insert(m, r, k) ==
  LET adopt == {e \in m : e.key = k /\ e.start <= r.end /\ r.start <= e.end}
      nr == Range(Min({r.start} \cup {e.start : e \in adopt}),
                  Max({r.end} \cup {e.end : e \in adopt}))
      rest == m \ adopt
  IN UNION {Clip(e, nr) : e \in rest} \cup {Entry(nr, k)}

\* RangeMap::remove(range): every stored entry is cut back to what lies
\* outside the range.
map_remove(m, r) == UNION {Clip(e, r) : e \in m}

\* RangeMap::overlaps(&range).
map_overlaps(m, r) == \E e \in m : e.start < r.end /\ r.start < e.end

\* ------------------------------------------------------------ SparseVec
\* The container as a value: the three fields, and whether a call on it
\* panicked (the fields then hold what the call had done so far).
SV(m, d, kc, p) == [map |-> m, data |-> d, key_counter |-> kc, panic |-> p]
Block(r, v) == [range |-> r, vec |-> v]

Panic(st) == [st EXCEPT !.panic = TRUE]

\* HashMap::insert(key, value) on the Block Store.
data_insert(d, k, b) == [x \in DOMAIN d \cup {k} |-> IF x = k THEN b ELSE d[x]]
\* HashMap::remove(&key).
data_remove(d, k) == [x \in DOMAIN d \ {k} |-> d[x]]

sub_range(r, offset) == Range(r.start - offset, r.end - offset)

\* u64 -> usize of both ends; lossless on the 64-bit targets modelled.
cast_range(r) == Range(r.start, r.end)

\* vec[range]: the elements at indices range.start .. range.end - 1.
Slice(v, r) == SubSeq(v, r.start + 1, r.end)
\* Whether vec[range] is in bounds (else the slice index panics).
SliceOk(v, r) == 0 <= r.start /\ r.start <= r.end /\ r.end <= Len(v)

\* copy_within with a bug: nothing is moved, the front elements stay.
copy_within_unmoved(v, src) == v

\* slice::copy_within(src, 0): the elements at src are copied to the front.
copy_within(v, src) ==
  [i \in 1..Len(v) |-> IF i <= src.end - src.start THEN v[src.start + i] ELSE v[i]]
\* Vec::truncate(len): no effect when len is not below the current length.
truncate(v, n) == IF n < Len(v) THEN SubSeq(v, 1, n) ELSE v

\* resize_block(data, key, range): the block's buffer is cut to the part
\* that lies at range, and range is recorded for the block.  It panics when
\* the key is not stored and when the copied part leaves the buffer.  When
\* range.start lies below the recorded start the start offset overflows:
\* with overflow checks that panics, without them it wraps to an offset
\* beyond every buffer and copy_within panics.  When only range.end lies
\* below the recorded start the end offset overflows: with overflow checks
\* that panics; without them the end wraps beyond every buffer, so that
\* copy_within panics when the start offset is not 0, and when it is 0
\* nothing is copied, truncate cuts nothing and range is recorded.
resize_block(st, key, range, overflow_checks) ==
  IF st.panic THEN st
  ELSE IF key \notin DOMAIN st.data THEN Panic(st)
  ELSE LET old_range == st.data[key].range
           vec == st.data[key].vec
       IN IF range.start < old_range.start THEN Panic(st)
          ELSE IF range.end < old_range.start
          THEN IF overflow_checks \/ range.start # old_range.start
               THEN Panic(st)
               ELSE [st EXCEPT !.data[key] = Block(range, vec)]
          ELSE LET new_vec_range == cast_range(sub_range(range, old_range.start))
               IN IF new_vec_range.start # 0 /\ ~SliceOk(vec, new_vec_range)
                  THEN Panic(st)
                  ELSE LET moved == IF new_vec_range.start # 0
                                    THEN copy_within(vec, new_vec_range)
                                    ELSE vec
                           cut == truncate(moved, new_vec_range.end - new_vec_range.start)
                       IN [st EXCEPT !.data[key] = Block(range, cut)]

\* collect_garbage with a bug: nothing is dropped.
collect_garbage_none(st) == st

\* collect_garbage(): blocks whose key the index no longer holds are dropped.
collect_garbage(st) ==
  LET used == {e.key : e \in st.map}
  IN [st EXCEPT !.data = [k \in DOMAIN st.data \cap used |-> st.data[k]]]

\* assert_invariants(): TRUE when it returns, FALSE when it panics.
assert_invariants(st) ==
  /\ \A e \in st.map :
       /\ e.key \in DOMAIN st.data
       /\ EntryRange(e) = st.data[e.key].range
       /\ Len(st.data[e.key].vec) = e.end - e.start
  /\ \A e, f \in st.map : e.key = f.key => e = f

\* covers_both with a bug: only insert_range.start is looked up.
covers_both_start(st, insert_range) ==
  map_get(st.map, insert_range.start) # None

\* insert, lines 78-81: the key that covers insert_range.start also covers
\* insert_range.end.
covers_both(st, insert_range) ==
  /\ map_get(st.map, insert_range.start) # None
  /\ map_get(st.map, insert_range.start) = map_get(st.map, insert_range.end)

\* PreSplit with a bug: the covering block is never split.
PreSplit_none(st, insert_range, overflow_checks) == st

\* SplitUpper with a bug: the upper part is not split off.
SplitUpper_skipped(st, key, insert_range) == st

\* insert, lines 82-95: the part of the covering block above the inserted
\* range, when there is one, becomes a block under a new key.
SplitUpper(st, key, insert_range) ==
  LET range == st.data[key].range
      vec == st.data[key].vec
      upper_range == Range(insert_range.end, range.end)
      copy_range == cast_range(sub_range(upper_range, range.start))
  IN IF ~is_empty(upper_range)
     THEN LET m1 == [st EXCEPT !.map = map_insert(st.map, upper_range, st.key_counter)]
          IN IF upper_range.start < range.start \/ ~SliceOk(vec, copy_range)
             THEN Panic(m1)
             ELSE [m1 EXCEPT
                     !.data = data_insert(m1.data, m1.key_counter,
                                          Block(upper_range, Slice(vec, copy_range))),
                     !.key_counter = m1.key_counter + 1]
     ELSE st

\* insert, lines 78-102: when one block covers both insert_range.start and
\* insert_range.end, its upper part gets a block and a key of its own and
\* the block is cut to its lower part.
PreSplit(st, insert_range, overflow_checks) ==
  LET start_key == map_get(st.map, insert_range.start)
  IN IF covers_both(st, insert_range)
     THEN LET key == start_key[1]
          IN IF key \notin DOMAIN st.data THEN Panic(st)
             ELSE LET lower_range == Range(st.data[key].range.start, insert_range.start)
                      withUpper == SplitUpper(st, key, insert_range)
                      withLower ==
                        IF ~withUpper.panic /\ ~is_empty(lower_range)
                        THEN LET r == resize_block(withUpper, key, lower_range,
                                                   overflow_checks)
                             IN IF r.panic THEN r
                                ELSE [r EXCEPT !.map = map_insert(r.map, lower_range, key)]
                        ELSE withUpper
                  IN withLower
     ELSE st

\* insert, lines 104-107: the new range and block under a fresh key.
RawInsert(st, insert_range, d) ==
  IF st.panic THEN st
  ELSE [st EXCEPT !.map = map_insert(st.map, insert_range, st.key_counter),
                  !.data = data_insert(st.data, st.key_counter, Block(insert_range, d)),
                  !.key_counter = st.key_counter + 1]

\* insert, lines 109-112: resize_block for every entry of the index, in order.
RECURSIVE ResizeAll(_, _, _)
ResizeAll(st, entries, overflow_checks) ==
  IF entries = <<>> \/ st.panic THEN st
  ELSE ResizeAll(resize_block(st, Head(entries).key, EntryRange(Head(entries)),
                              overflow_checks),
                 Tail(entries), overflow_checks)

Resize(st, overflow_checks) == ResizeAll(st, iter(st.map), overflow_checks)

\* Mergable with a bug: no pair is ever found.
Mergable_never(m) == None

\* Mergable with a bug: ranges one address apart count as touching.
Mergable_gap(m) ==
  LET s == iter(m)
      idx == {i \in 1..(Len(s) - 1) : s[i].end + 1 >= s[i + 1].start}
  IN IF idx = {} THEN None ELSE Some(<<s[Min(idx)], s[Min(idx) + 1]>>)

\* insert, lines 116-122: the first pair of consecutive entries that touch.
Mergable(m) ==
  LET s == iter(m)
      idx == {i \in 1..(Len(s) - 1) : s[i].end = s[i + 1].start}
  IN IF idx = {} THEN None ELSE Some(<<s[Min(idx)], s[Min(idx) + 1]>>)

\* MergeStep with a bug: the second buffer is put before the first.
MergeStep_reversed(st, range, range2) ==
  LET key1 == map_get(st.map, range.start)[1]
      key2 == map_get(st.map, range2.start)[1]
      data_range == Range(range.start, range2.end)
  IN [st EXCEPT
        !.data = [k \in DOMAIN st.data \ {key2} |->
                    IF k = key1
                    THEN Block(data_range, st.data[key2].vec \o st.data[key1].vec)
                    ELSE st.data[k]],
        !.map = map_insert(map_remove(st.map, range2), data_range, key1)]

\* MergeStep with a bug: both ranges of the pair are removed from the
\* index and the merged range is not put back.
MergeStep_drops_pair(st, range, range2) ==
  LET key1 == map_get(st.map, range.start)[1]
      key2 == map_get(st.map, range2.start)[1]
      data_range == Range(range.start, range2.end)
  IN [st EXCEPT
        !.data = [k \in DOMAIN st.data \ {key2} |->
                    IF k = key1
                    THEN Block(data_range, st.data[key1].vec \o st.data[key2].vec)
                    ELSE st.data[k]],
        !.map = map_remove(map_remove(st.map, range2), range)]

\* MergeStep with a bug: the merged block is kept under the key of the
\* second block of the pair.
MergeStep_second_key(st, range, range2) ==
  LET key1 == map_get(st.map, range.start)[1]
      key2 == map_get(st.map, range2.start)[1]
      data_range == Range(range.start, range2.end)
  IN [st EXCEPT
        !.data = [k \in DOMAIN st.data \ {key1} |->
                    IF k = key2
                    THEN Block(data_range, st.data[key1].vec \o st.data[key2].vec)
                    ELSE st.data[k]],
        !.map = map_insert(map_remove(st.map, range), data_range, key2)]

\* insert, lines 124-133: the second block of the pair is appended to the first.
MergeStep(st, range, range2) ==
  LET key1 == map_get(st.map, range.start)[1]
      key2 == map_get(st.map, range2.start)[1]
  IN IF key2 \notin DOMAIN st.data THEN Panic(st)
     ELSE LET vec2 == st.data[key2].vec
              d1 == data_remove(st.data, key2)
              m1 == map_remove(st.map, range2)
              s1 == [st EXCEPT !.data = d1, !.map = m1]
          IN IF key1 \notin DOMAIN d1 THEN Panic(s1)
             ELSE LET data_range == Range(range.start, range2.end)
                  IN [s1 EXCEPT
                        !.data[key1] = Block(data_range, d1[key1].vec \o vec2),
                        !.map = map_insert(m1, data_range, key1)]

\* Merge with a bug: one merge step at most, the scan is not repeated.
Merge_once(st) ==
  IF st.panic \/ Mergable(st.map) = None THEN st
  ELSE MergeStep(st, EntryRange(Mergable(st.map)[1][1]), EntryRange(Mergable(st.map)[1][2]))

\* insert, lines 114-137: merge until no two consecutive entries touch.
RECURSIVE Merge(_)
Merge(st) ==
  IF st.panic THEN st
  ELSE LET pair == Mergable(st.map)
       IN IF pair = None THEN st
          ELSE Merge(MergeStep(st, EntryRange(pair[1][1]), EntryRange(pair[1][2])))

\* A call resize_block(data, key, range) and the state it is made in.
Call(st, key, range) == [before |-> st, key |-> key, range |-> range]

\* insert, lines 97-98: the resize_block call of the split, when the lower
\* part of the covering block is not empty.
SplitCalls(st, insert_range) ==
  IF covers_both(st, insert_range)
     /\ map_get(st.map, insert_range.start)[1] \in DOMAIN st.data
  THEN LET key == map_get(st.map, insert_range.start)[1]
           lower_range == Range(st.data[key].range.start, insert_range.start)
           withUpper == SplitUpper(st, key, insert_range)
       IN IF ~withUpper.panic /\ ~is_empty(lower_range)
          THEN <<Call(withUpper, key, lower_range)>>
          ELSE <<>>
  ELSE <<>>

\* insert, lines 110-112: the resize_block calls of the loop, in order.
RECURSIVE LoopCalls(_, _, _)
LoopCalls(st, entries, overflow_checks) ==
  IF entries = <<>> \/ st.panic THEN <<>>
  ELSE <<Call(st, Head(entries).key, EntryRange(Head(entries)))>>
       \o LoopCalls(resize_block(st, Head(entries).key, EntryRange(Head(entries)),
                                 overflow_checks),
                    Tail(entries), overflow_checks)

\* insert, lines 97-112: every resize_block call of one insert.
ResizeCalls(st, insert_range, d, overflow_checks) ==
  SplitCalls(st, insert_range)
  \o (LET raw == RawInsert(PreSplit(st, insert_range, overflow_checks), insert_range, d)
      IN LoopCalls(raw, iter(raw.map), overflow_checks))

\* insert, lines 114-137: the states at the head of every iteration of the
\* merge loop, the last one being the state the loop breaks in.
RECURSIVE MergeTrace(_)
MergeTrace(st) ==
  IF st.panic THEN <<st>>
  ELSE LET pair == Mergable(st.map)
       IN IF pair = None THEN <<st>>
          ELSE <<st>> \o MergeTrace(MergeStep(st, EntryRange(pair[1][1]),
                                              EntryRange(pair[1][2])))

\* insert with a bug: no early return for the empty sequence.
insert_unguarded(st, d, addr, overflow_checks) ==
  collect_garbage(Merge(Resize(RawInsert(PreSplit(st, Range(addr, addr + Len(d)),
                                                  overflow_checks),
                                         Range(addr, addr + Len(d)), d),
                               overflow_checks)))

\* insert(data, addr), lines 71-139; the build matters to the offset
\* subtractions of resize_block.  The explored addresses are far below
\* 2^64: addr + data.len() never wraps.
insert(st, d, addr, overflow_checks) ==
  IF d = <<>> THEN st
  ELSE LET insert_range == Range(addr, addr + Len(d))
       IN LET merged == Merge(Resize(RawInsert(PreSplit(st, insert_range, overflow_checks),
                                               insert_range, d),
                                     overflow_checks))
          IN IF merged.panic THEN merged ELSE collect_garbage(merged)

\* The last statement of insert, lines 141-142: assert_invariants runs in
\* builds with debug assertions.
checked(st, debug_assertions) ==
  IF debug_assertions /\ ~st.panic /\ ~assert_invariants(st) THEN Panic(st) ELSE st

\* ---------------------------------------------------------------- queries
\* What a query returns: whether it panicked, and its Option<&[T]>.
Answer(p, v) == [panic |-> p, view |-> v]

\* get with a bug: the view is cut at the end of the buffer instead of
\* being refused.
get_clamped(st, range, overflow_checks) ==
  LET kv == get_key_value(st.map, range.start)
  IN IF kv = None \/ range.end < range.start THEN Answer(FALSE, None)
     ELSE LET vec == st.data[kv[1].key].vec
              from == range.start - kv[1].start
              to == IF range.end - kv[1].start <= Len(vec)
                    THEN range.end - kv[1].start ELSE Len(vec)
          IN Answer(FALSE, Some(SubSeq(vec, from + 1, to)))

\* get(range), lines 51-55.  range.end - found_range.start overflows when
\* range.end lies below the found block: with overflow checks the call
\* panics, without them the end wraps to a value beyond every buffer and
\* the slice lookup answers None.
get(st, range, overflow_checks) ==
  LET kv == get_key_value(st.map, range.start)
  IN IF kv = None THEN Answer(FALSE, None)
     ELSE LET found_range == EntryRange(kv[1])
              key == kv[1].key
          IN IF range.end < found_range.start
             THEN Answer(overflow_checks \/ key \notin DOMAIN st.data, None)
             ELSE IF key \notin DOMAIN st.data THEN Answer(TRUE, None)
             ELSE LET slice_range == cast_range(sub_range(range, found_range.start))
                      vec == st.data[key].vec
                  IN IF SliceOk(vec, slice_range)
                     THEN Answer(FALSE, Some(Slice(vec, slice_range)))
                     ELSE Answer(FALSE, None)

\* get_mut(range), lines 57-65: the lookup of the entry, the offset
\* subtraction of sub_range, data.get_mut(key).unwrap() and the slice's
\* get_mut, which refuses what the slice's get refuses.
get_mut(st, range, overflow_checks) ==
  LET kv == get_key_value(st.map, range.start)
  IN IF kv = None THEN Answer(FALSE, None)
     ELSE LET found_range == EntryRange(kv[1])
              key == kv[1].key
              slice_range == cast_range(sub_range(range, found_range.start))
          IN IF range.end < found_range.start /\ overflow_checks THEN Answer(TRUE, None)
             ELSE IF key \notin DOMAIN st.data THEN Answer(TRUE, None)
             ELSE IF range.end < found_range.start THEN Answer(FALSE, None)
             ELSE IF SliceOk(st.data[key].vec, slice_range)
                  THEN Answer(FALSE, Some(Slice(st.data[key].vec, slice_range)))
                  ELSE Answer(FALSE, None)

\* write_view with a bug: the elements land at the start of the buffer,
\* not at the offset of the view.
write_view_unshifted(st, range, w) ==
  LET e == get_key_value(st.map, range.start)[1]
      vec == st.data[e.key].vec
  IN [st EXCEPT !.data[e.key].vec =
        [i \in 1..Len(vec) |-> IF i <= Len(w) THEN w[i] ELSE vec[i]]]

\* A write of the elements w through the view get_mut(range) returned.
write_view(st, range, w) ==
  LET e == get_key_value(st.map, range.start)[1]
      off == range.start - e.start
      vec == st.data[e.key].vec
  IN [st EXCEPT !.data[e.key].vec =
        [i \in 1..Len(vec) |-> IF off < i /\ i <= off + Len(w) THEN w[i - off] ELSE vec[i]]]

\* overlaps with a bug: a range that only touches a stored range counts.
overlaps_touching(st, range) ==
  \E e \in st.map : e.start <= range.end /\ range.start <= e.end

\* overlaps(&range), lines 67-69.
overlaps(st, range) == map_overlaps(st.map, range)

\* ranges(), lines 145-147.
ranges(st) == LET s == iter(st.map) IN [i \in 1..Len(s) |-> EntryRange(s[i])]

RECURSIVE SumLen(_, _)
SumLen(st, entries) ==
  IF entries = <<>> THEN 0
  ELSE Len(st.data[Head(entries).key].vec) + SumLen(st, Tail(entries))

\* stored_len with a bug: the blocks are counted, not their elements.
stored_len_blocks(st) == Cardinality(st.map)

\* stored_len(), lines 149-151.
stored_len(st) == SumLen(st, iter(st.map))

\* ------------------------------------------------------------ state machine
\* mem[x] is the element last written to address x, 0 when none was.
Written(m, d, addr) ==
  [x \in DOMAIN m |-> IF addr <= x /\ x < addr + Len(d) THEN d[x - addr + 1] ELSE m[x]]

\* SparseVec::default().
Init ==
  /\ sv = SV({}, <<>>, 0, FALSE)
  /\ mem = [x \in Addrs |-> 0]
  /\ ret = [op |-> "new"]

\* insert(data, addr), in a build with or without overflow checks.  A
\* non-empty insert ends with assert_invariants in builds with debug
\* assertions.
Insert ==
  \E d \in Datas, addr \in Addrs :
    /\ ~sv.panic
    /\ sv.key_counter < MaxKey
    /\ addr + Len(d) <= MaxAddr
    /\ \E done \in {insert(sv, d, addr, overflow_checks) : overflow_checks \in BOOLEAN} :
         \E next \in {checked(done, debug_assertions /\ d # <<>>) :
                         debug_assertions \in BOOLEAN} :
            sv' = next
    /\ mem' = Written(mem, d, addr)
    /\ ret' = [op |-> "insert", data |-> d, addr |-> addr,
               was_empty |-> (sv.map = {}),
               split |-> (d # <<>> /\ covers_both(sv, Range(addr, addr + Len(d))))]

\* get(range) reads only: nothing of the container changes, unless the call
\* panics.  The build matters only when the offset subtraction overflows.
Get ==
  \E s \in 0..MaxAddr, e \in 0..MaxAddr :
    /\ ~sv.panic
    /\ \E r \in {get(sv, Range(s, e), overflow_checks) : overflow_checks \in BOOLEAN} :
         sv' = [sv EXCEPT !.panic = r.panic]
    /\ UNCHANGED <<mem, ret>>

\* get_mut(range), and the caller's write of w through the view it returned.
\* Like the sequences inserted, the sequences written have MaxLen elements
\* at most; a longer view is not written through.
GetMut ==
  \E s \in 0..MaxAddr, e \in 0..MaxAddr :
    /\ ~sv.panic
    /\ \E r \in {get_mut(sv, Range(s, e), overflow_checks) : overflow_checks \in BOOLEAN} :
         IF r.view # None /\ Len(r.view[1]) <= MaxLen
         THEN \E w \in [1..Len(r.view[1]) -> Vals] :
                /\ sv' = write_view(sv, Range(s, e), w)
                /\ mem' = Written(mem, w, s)
                /\ ret' = [op |-> "get_mut", start |-> s, end |-> e, view |-> w]
         ELSE /\ sv' = [sv EXCEPT !.panic = r.panic]
              /\ UNCHANGED <<mem, ret>>

\* overlaps(&range), ranges() and stored_len() read only; what they return
\* is overlaps(sv, r), ranges(sv) and stored_len(sv).
Overlaps ==
  \E s \in 0..MaxAddr, e \in 0..MaxAddr :
    /\ ~sv.panic
    /\ s < e
    /\ overlaps(sv, Range(s, e)) \in BOOLEAN
    /\ UNCHANGED vars

Ranges ==
  /\ ~sv.panic
  /\ Len(ranges(sv)) = Cardinality(sv.map)
  /\ UNCHANGED vars

StoredLen ==
  /\ ~sv.panic
  /\ stored_len(sv) >= 0
  /\ UNCHANGED vars

Next == Insert \/ Get \/ GetMut \/ Overlaps \/ Ranges \/ StoredLen

Spec == Init /\ [][Next]_vars

\* ------------------------------------------- assert_invariants on any state
\* assert_invariants is applied to the states the two fields can hold, not
\* only to those insert produces.  MaxCheckKey bounds the keys in use.
MaxCheckKey == 2
CheckKeys == 0..(MaxCheckKey - 1)

\* What a RangeMap<u64, usize> can hold: ranges that are not empty and do
\* not overlap, and no two touching ranges with the same value (the crate
\* coalesces them).
CheckEntries ==
  {Entry(Range(s, e), k) : s \in 0..MaxAddr, e \in 0..MaxAddr, k \in CheckKeys}
IndexStates ==
  {m \in SUBSET {x \in CheckEntries : x.start < x.end} :
     \A x, y \in m :
        x # y => /\ x.end <= y.start \/ y.end <= x.start
                 /\ x.key = y.key => x.end # y.start /\ y.end # x.start}

\* What a HashMap<usize, (Range<u64>, Vec<T>)> can hold: under any of the
\* keys, any non-empty range with a buffer of any length.
CheckBlocks ==
  {Block(Range(s, e), [i \in 1..n |-> 1]) :
     s \in 0..MaxAddr, e \in 0..MaxAddr, n \in 0..MaxLen}
StoreStates ==
  UNION {[K -> {b \in CheckBlocks : b.range.start < b.range.end}] : K \in SUBSET CheckKeys}

InitCheck ==
  /\ sv \in {SV(m, d, MaxCheckKey, FALSE) : m \in IndexStates, d \in StoreStates}
  /\ mem = [x \in Addrs |-> 0]
  /\ ret = [op |-> "state"]

\* self.assert_invariants(), as the tests and the debug build call it.
AssertInvariants ==
  /\ ret.op = "state"
  /\ sv' = checked(sv, TRUE)
  /\ ret' = [op |-> "assert_invariants", panicked |-> ~assert_invariants(sv)]
  /\ UNCHANGED mem

NextCheck == AssertInvariants

CheckSpec == InitCheck /\ [][NextCheck]_vars

\* ------------------------------------------------------------------ claims
\* The query ranges s..e with s < e over the explored addresses.
ProperRanges == {r \in [start : 0..MaxAddr, end : 0..MaxAddr] : r.start < r.end}
\* All query ranges, the empty and the inverted ones included.
QueryRanges == [start : 0..MaxAddr, end : 0..MaxAddr]

WrittenAll(r) == \A x \in r.start..(r.end - 1) : mem[x] # 0
WrittenSome(r) == \E x \in r.start..(r.end - 1) : mem[x] # 0
Expected(r) == [i \in 1..(r.end - r.start) |-> mem[r.start + i - 1]]
LastInsertRange == Range(ret.addr, ret.addr + Len(ret.data))

\* C1 (first half): right after insert(d, a), get(a .. a+len(d)) is Some(d).
C1_AfterInsert ==
  (ret.op = "insert" /\ ~sv.panic) =>
     get(sv, LastInsertRange, TRUE) = Answer(FALSE, Some(ret.data))

\* C1 (second half): an insert whose range does not overlap r leaves what
\* get(r) returns as it was.
C1_KeptByStep ==
  (ret'.op = "insert" /\ ~sv'.panic) =>
     \A r \in ProperRanges :
        (r.end <= ret'.addr \/ ret'.addr + Len(ret'.data) <= r.start)
           => (get(sv, r, TRUE).view # None => get(sv', r, TRUE) = get(sv, r, TRUE))

\* C1: round trip.  For every sequence d, the empty one included, and every
\* address a, get(a .. a+len(d)) returns Some(d) right after insert(d, a)
\* and keeps returning it over later inserts that do not overlap the range.
C1_RoundTrip == [](C1_AfterInsert) /\ [][C1_KeptByStep]_vars

\* The round trip of the non-empty sequences.
RoundTripNonEmpty == (ret.op = "insert" /\ ret.data # <<>>) => C1_AfterInsert

\* C2: last write wins.  Whatever get returns for a range holds, at every
\* address of the range, the element most recently written to that address;
\* so after an overlapping insert the overlap reads the new data and the
\* rest of the older block reads the old data.
C2_LastWriteWins ==
  \A r \in ProperRanges :
     get(sv, r, TRUE).view # None => get(sv, r, TRUE).view[1] = Expected(r)

\* C2's case: the last insert landed strictly inside an older block, which
\* was split in two, and both parts still read elements that differ from
\* the inserted ones next to them.
C2_Witness ==
  /\ ret.op = "insert" /\ ret.split /\ ~sv.panic
  /\ ret.addr > 0
  /\ LastInsertRange.end < MaxAddr
  /\ get(sv, Range(ret.addr - 1, LastInsertRange.end + 1), TRUE).view # None
  /\ mem[ret.addr - 1] # ret.data[1]
  /\ mem[LastInsertRange.end] # ret.data[Len(ret.data)]

\* C3: get(s..e) with s < e returns Some exactly when every address of
\* s..e has been written.
C3_GetIffWritten ==
  \A r \in ProperRanges : (get(sv, r, TRUE).view # None) <=> WrittenAll(r)

\* C3's case: a gap between two stored blocks; get over the gap fails and
\* get on either side succeeds.
C3_Witness ==
  /\ ~sv.panic
  /\ \E r \in ProperRanges :
        /\ r.end - r.start >= 3
        /\ get(sv, r, TRUE).view = None
        /\ get(sv, Range(r.start, r.start + 1), TRUE).view # None
        /\ get(sv, Range(r.end - 1, r.end), TRUE).view # None
        /\ ~WrittenAll(r)

\* C4: coalescing.  After insert(d1, a) with d1 non-empty, insert(d2, a+len(d1))
\* of any non-empty d2 leaves one stored range that contains
\* a .. a+len(d1)+len(d2), get over that span returns d1 followed by d2,
\* and when the container was empty before insert(d1, a), ranges() yields
\* exactly that range.
C4_Coalescing ==
  (ret.op = "insert" /\ ret.data # <<>> /\ ~sv.panic) =>
     \A d2 \in Datas \ {<<>>} :
        LET a2 == LastInsertRange.end
            span == Range(ret.addr, a2 + Len(d2))
            st2 == insert(sv, d2, a2, TRUE)
        IN /\ ~st2.panic
           /\ Cardinality({e \in st2.map : e.start < span.end /\ span.start < e.end}) = 1
           /\ \E e \in st2.map : e.start <= span.start /\ span.end <= e.end
           /\ get(st2, span, TRUE) = Answer(FALSE, Some(ret.data \o d2))
           /\ ret.was_empty => ranges(st2) = <<span>>

\* C4's case: the first insert went into the empty container and a second,
\* adjacent insert yields the single merged range.
C4_Witness ==
  /\ ret.op = "insert" /\ ret.data # <<>> /\ ret.was_empty /\ ~sv.panic
  /\ ranges(insert(sv, <<1, 2>>, LastInsertRange.end, TRUE))
       = <<Range(ret.addr, LastInsertRange.end + 2)>>

\* C5: the ranges of ranges() are non-empty, ascending, and consecutive
\* ones neither overlap nor touch.
C5_RangesApart ==
  LET rs == ranges(sv)
  IN \A i \in 1..Len(rs) :
        /\ rs[i].start < rs[i].end
        /\ i < Len(rs) => rs[i].end < rs[i + 1].start

\* C5's case: after the last insert two ranges lie one unwritten address
\* apart, as close as ranges may get without being merged.
C5_Witness ==
  /\ ret.op = "insert" /\ ret.data # <<>> /\ ~ret.was_empty /\ ~sv.panic
  /\ Len(ranges(sv)) >= 2
  /\ ranges(sv)[1].end + 1 = ranges(sv)[2].start

\* C6: the Block Store and the Range Index hold the same keys, and every
\* block records the range of its index entry and holds as many elements.
C6_Lockstep ==
  /\ DOMAIN sv.data = {e.key : e \in sv.map}
  /\ \A e \in sv.map :
        /\ e.key \in DOMAIN sv.data
        /\ sv.data[e.key].range = EntryRange(e)
        /\ Len(sv.data[e.key].vec) = e.end - e.start

\* C6's case: an insert after which some allocated key is stored no more
\* (its block was swallowed or merged away) while blocks remain.
C6_Witness ==
  /\ ret.op = "insert" /\ ret.data # <<>> /\ ~sv.panic
  /\ \E k \in 0..(sv.key_counter - 1) : k \notin DOMAIN sv.data
  /\ Cardinality(sv.map) >= 2

\* C7: no storage key belongs to two ranges of the Range Index.
C7_UniqueKeys == \A e, f \in sv.map : e.key = f.key => e = f

\* C7's case: the last insert landed strictly inside one existing block.
C7_Witness ==
  /\ ret.op = "insert" /\ ret.split /\ ~sv.panic
  /\ \E e \in sv.map : e.start < ret.addr /\ LastInsertRange.end < e.end

\* What the public queries show of a container.
Observable(st) ==
  [ranges |-> ranges(st),
   stored_len |-> stored_len(st),
   get |-> [r \in QueryRanges |-> <<get(st, r, TRUE), get(st, r, FALSE)>>],
   overlaps |-> [r \in ProperRanges |-> overlaps(st, r)]]

\* C8: inserting the same (d, a) a second time changes nothing the queries
\* show: ranges(), stored_len(), get and overlaps of every range.
C8_Idempotent ==
  (ret.op = "insert" /\ ~sv.panic) =>
     LET again == insert(sv, ret.data, ret.addr, TRUE)
     IN ~again.panic /\ Observable(again) = Observable(sv)

\* C8's case: the second insert is real work: it splits the block that the
\* first insert was merged into, and allocates two keys.
C8_Witness ==
  /\ ret.op = "insert" /\ ret.data # <<>> /\ ~sv.panic
  /\ insert(sv, ret.data, ret.addr, TRUE).key_counter = sv.key_counter + 2

\* C9: an insert of the empty sequence leaves the Range Index, the Block
\* Store and the key counter as they were.
C9_EmptyInsertNoOp ==
  [][(ret'.op = "insert" /\ ret'.data = <<>>) =>
        /\ sv'.map = sv.map
        /\ sv'.data = sv.data
        /\ sv'.key_counter = sv.key_counter]_vars

\* C9's case: the empty sequence was inserted at an address inside a block.
C9_Witness ==
  /\ ret.op = "insert" /\ ret.data = <<>> /\ ~sv.panic
  /\ \E e \in sv.map : e.start < ret.addr /\ ret.addr < e.end

\* C10: overlaps(s..e) with s < e is true exactly when some address of s..e
\* has been written; on the new container it is false for every range.
C10_OverlapsIffWritten ==
  \A r \in ProperRanges : overlaps(sv, r) <=> WrittenSome(r)

\* C10's case: a range that is only partly written and one that touches a
\* stored block without reaching into it.
C10_Witness ==
  /\ ~sv.panic
  /\ \E r \in ProperRanges : overlaps(sv, r) /\ ~WrittenAll(r)
  /\ \E r \in ProperRanges : r.start > 0 /\ mem[r.start - 1] # 0 /\ ~overlaps(sv, r)

\* C11: malformed queries do not fail loudly.  In every reachable state
\* and for every query range, the empty and the inverted ones included,
\* get and get_mut return None or a view and never abort, in whichever
\* build; also when the start of the range is covered by a block and its
\* end lies below the start of that block.
C11_QueriesNeverAbort ==
  ~sv.panic =>
     \A r \in QueryRanges, overflow_checks \in BOOLEAN :
        /\ ~get(sv, r, overflow_checks).panic
        /\ ~get_mut(sv, r, overflow_checks).panic

\* What does hold: without overflow checks no query aborts, and with them
\* the only queries that abort are those whose end lies below the start of
\* the block that covers their start.
QueriesAbortOnlyBelowBlock ==
  ~sv.panic =>
     \A r \in QueryRanges :
        /\ ~get(sv, r, FALSE).panic
        /\ ~get_mut(sv, r, FALSE).panic
        /\ get_mut(sv, r, TRUE).panic = get(sv, r, TRUE).panic
        /\ get(sv, r, TRUE).panic <=>
              \E e \in sv.map : e.start <= r.start /\ r.start < e.end /\ r.end < e.start

\* In one state: get_mut(r) returns Some exactly when get(r) returns Some,
\* and a write of any elements w through the view changes the elements at
\* the addresses of r only.
C12_InState ==
  ~sv.panic =>
     \A before \in {[get |-> [x \in Addrs |-> get(sv, Range(x, x + 1), TRUE)],
                     ranges |-> ranges(sv),
                     stored_len |-> stored_len(sv)]} :
        \A r \in QueryRanges :
           \A got \in {get(sv, r, TRUE)}, got_mut \in {get_mut(sv, r, TRUE)} :
              /\ (got_mut.view # None) <=> (got.view # None)
              /\ got_mut.view # None =>
                    \A w \in [1..Len(got_mut.view[1]) -> Vals] :
                       \A after \in {write_view(sv, r, w)} :
                          /\ get(after, r, TRUE) = Answer(FALSE, Some(w))
                          /\ \A x \in Addrs :
                                (x < r.start \/ r.end <= x) =>
                                   get(after, Range(x, x + 1), TRUE) = before.get[x]
                          /\ ranges(after) = before.ranges
                          /\ stored_len(after) = before.stored_len
                          /\ after.map = sv.map
                          /\ DOMAIN after.data = DOMAIN sv.data
                          /\ \A k \in DOMAIN sv.data :
                                after.data[k].range = sv.data[k].range
                          /\ after.key_counter = sv.key_counter
                          /\ ~after.panic

\* C12: get_mut write-through.  In every reachable state get_mut(r)
\* returns Some exactly when get(r) returns Some, and a write of new
\* elements through the view changes the elements at the addresses of r
\* only: a later get reads the written values there, every other address
\* keeps its value, and ranges(), stored_len(), the index, the storage
\* keys and the key counter are unchanged.
C12_WriteThrough == [](C12_InState)

\* C12's case: elements were written through get_mut into the middle or
\* the end of a larger block, whose first element is another one, and get
\* reads them back.
C12_Witness ==
  /\ ret.op = "get_mut" /\ ~sv.panic
  /\ ret.start < ret.end
  /\ get(sv, Range(ret.start, ret.end), TRUE) = Answer(FALSE, Some(ret.view))
  /\ \E e \in sv.map :
        /\ e.start < ret.start /\ ret.end <= e.end
        /\ mem[e.start] # ret.view[1]

\* The sum of the buffer lengths of the blocks stored under the keys below k.
RECURSIVE BufferSum(_, _)
BufferSum(d, k) ==
  IF k = 0 THEN 0
  ELSE (IF (k - 1) \in DOMAIN d THEN Len(d[k - 1].vec) ELSE 0) + BufferSum(d, k - 1)

\* The sum of end - start over a sequence of ranges.
RECURSIVE RangeSum(_)
RangeSum(rs) ==
  IF rs = <<>> THEN 0 ELSE (Head(rs).end - Head(rs).start) + RangeSum(Tail(rs))

\* C13: stored_len() equals the sum of the buffer lengths of all blocks of
\* the Block Store, the sum of end - start over ranges(), and the number of
\* distinct addresses written so far; writing a stored address again does
\* not change it.
C13_StoredLen ==
  ~sv.panic =>
     /\ stored_len(sv) = BufferSum(sv.data, sv.key_counter)
     /\ stored_len(sv) = RangeSum(ranges(sv))
     /\ stored_len(sv) = Cardinality({x \in Addrs : mem[x] # 0})

\* C13's case: the last insert wrote addresses that were stored already,
\* inside a block that reaches beyond it, and two keys were allocated.
C13_Witness ==
  /\ ret.op = "insert" /\ ret.split /\ ~sv.panic
  /\ stored_len(sv) > Len(ret.data)
  /\ sv.key_counter >= 3

\* C14: surviving key.  A non-empty insert with range [s, e): when some
\* block B of the state before has B.start < s <= B.end, the block that
\* contains [s, e) afterwards carries the key of B; otherwise it carries
\* the key allocated for the inserted data, the last one allocated.  The
\* keys of the blocks that started at s or above and were overlapped by,
\* or adjacent to, [s, e) exist no more.
C14_SurvivingKey ==
  [][(vars' # vars /\ ret'.op = "insert" /\ ret'.data # <<>> /\ ~sv.panic /\ ~sv'.panic) =>
       LET s == ret'.addr
           e == ret'.addr + Len(ret'.data)
           B == {b \in sv.map : b.start < s /\ s <= b.end}
           holders == {h \in sv'.map : h.start <= s /\ e <= h.end}
           above == {b \in sv.map : s <= b.start /\ b.start <= e}
       IN /\ Cardinality(holders) = 1
          /\ \A h \in holders :
                IF B # {}
                THEN \A b \in B : h.key = b.key
                ELSE h.key = sv'.key_counter - 1 /\ h.key >= sv.key_counter
          /\ \A b \in above :
                /\ b.key \notin DOMAIN sv'.data
                /\ \A f \in sv'.map : f.key # b.key
    ]_vars

\* C14's case: the last insert split a block that began below it; two
\* keys were allocated and the block that holds the inserted range still
\* carries the older key of the split block.
C14_Witness ==
  /\ ret.op = "insert" /\ ret.split /\ ~sv.panic
  /\ \E h \in sv.map :
        /\ h.start < ret.addr /\ LastInsertRange.end < h.end
        /\ h.key < sv.key_counter - 2

\* C15: pre-split trigger and key allocation.  A non-empty insert with
\* range [s, e) performs the split exactly when one block B covers s and
\* has B.end > e; then the upper part [e, B.end) is non-empty and gets a
\* key, so the key counter advances by 2 on such an insert and by 1 on
\* every other non-empty insert.
C15_SplitAndKeys ==
  [][(vars' # vars /\ ret'.op = "insert" /\ ret'.data # <<>> /\ ~sv.panic /\ ~sv'.panic) =>
       LET s == ret'.addr
           e == ret'.addr + Len(ret'.data)
           covering == {b \in sv.map : b.start <= s /\ s < b.end /\ e < b.end}
       IN \A split \in {PreSplit(sv, Range(s, e), TRUE)} :
             /\ covers_both(sv, Range(s, e)) <=> covering # {}
             /\ Cardinality(covering) <= 1
             /\ covering # {} =>
                   /\ split.key_counter = sv.key_counter + 1
                   /\ \A b \in covering :
                         [start |-> e, end |-> b.end, key |-> sv.key_counter] \in split.map
             /\ covering = {} => split = sv
             /\ sv'.key_counter = sv.key_counter + (IF covering # {} THEN 2 ELSE 1)
    ]_vars

\* C15's case: the last insert began where the block it split began: the
\* lower part was empty, the upper part got the first of two new keys and
\* the inserted data the second, under which the merged block is kept.
C15_Witness ==
  /\ ret.op = "insert" /\ ret.split /\ ~sv.panic
  /\ \E h \in sv.map :
        /\ h.start = ret.addr /\ LastInsertRange.end < h.end
        /\ h.key = sv.key_counter - 1
        /\ (sv.key_counter - 2) \notin DOMAIN sv.data

\* The build makes no difference to an insert into a reachable state:
\* with and without overflow checks it returns the same container.  The
\* claims below look at the build with overflow checks.
InsertBuildAlike ==
  ~sv.panic =>
     \A d \in Datas, s \in Addrs :
        s + Len(d) <= MaxAddr => insert(sv, d, s, TRUE) = insert(sv, d, s, FALSE)

\* The inserts tried on a state where only the index and the buffer lengths
\* are looked at: every start address, every length, one content.
Fill(n) == [i \in 1..n |-> 1]
Lens == 1..MaxLen

\* C16: the merge loop is bounded.  On a non-empty insert with range
\* [s, e) = [s, s + n) into any reachable state every pair the scan finds
\* has the block that contains [s, e) as one of its two members, the loop makes two merge steps at most, every
\* step lowers the number of ranges of the index by one, and the loop ends
\* in a state where no two consecutive ranges touch.
C16_MergeBounded ==
  ~sv.panic =>
     \A n \in Lens, s \in Addrs :
        s + n <= MaxAddr =>
           \A trace \in {MergeTrace(Resize(RawInsert(PreSplit(sv, Range(s, s + n), TRUE),
                                                      Range(s, s + n), Fill(n)), TRUE))} :
              /\ Len(trace) - 1 <= 2
              /\ \A i \in 1..(Len(trace) - 1) :
                    \A pair \in {Mergable(trace[i].map)[1]} :
                       /\ \/ pair[1].start <= s /\ s + n <= pair[1].end
                          \/ pair[2].start <= s /\ s + n <= pair[2].end
                       /\ Cardinality(trace[i + 1].map) = Cardinality(trace[i].map) - 1
              /\ ~trace[Len(trace)].panic
              /\ Mergable(trace[Len(trace)].map) = None
              /\ \A f, g \in trace[Len(trace)].map : f.end # g.start

\* The state the replayed loop ends in is the one insert collects the
\* garbage of and returns.
MergeTraceEndsInsert ==
  ~sv.panic =>
     \A n \in Lens, s \in Addrs :
        s + n <= MaxAddr =>
           \A trace \in {MergeTrace(Resize(RawInsert(PreSplit(sv, Range(s, s + n), TRUE),
                                                      Range(s, s + n), Fill(n)), TRUE))} :
              insert(sv, Fill(n), s, TRUE) = collect_garbage(trace[Len(trace)])

\* C16's case: the last insert filled the one-address gap between two
\* blocks; the loop merged twice and one range under the oldest key is
\* left.  The same insert once more splits that block and merges twice.
C16_Witness ==
  /\ ret.op = "insert" /\ ~ret.split /\ ~ret.was_empty /\ ~sv.panic
  /\ ret.addr = 1 /\ Len(ret.data) = 1
  /\ sv.map = {Entry(Range(0, 3), 0)}
  /\ sv.key_counter = 3
  /\ Len(MergeTrace(Resize(RawInsert(PreSplit(sv, LastInsertRange, TRUE),
                                     LastInsertRange, ret.data), TRUE))) = 3

\* C17: frame of an insert.  A non-empty insert with range [s, e) leaves
\* every block that neither overlaps nor touches [s, e) (block.end < s or
\* block.start > e) as it was: the same key, the same range, the same
\* buffer; and every address stored before the insert is stored after it.
C17_InsertFrame ==
  [][(vars' # vars /\ ret'.op = "insert" /\ ret'.data # <<>> /\ ~sv.panic /\ ~sv'.panic) =>
       LET s == ret'.addr
           e == ret'.addr + Len(ret'.data)
       IN /\ \A b \in sv.map :
                (b.end < s \/ b.start > e) =>
                   /\ b \in sv'.map
                   /\ b.key \in DOMAIN sv'.data
                   /\ sv'.data[b.key] = sv.data[b.key]
          /\ \A x \in Addrs :
                (\E b \in sv.map : b.start <= x /\ x < b.end) =>
                   (\E b \in sv'.map : b.start <= x /\ x < b.end)
    ]_vars

\* C17's case: the last insert left a gap to a block that was stored before
\* it, on either side; that block holds what was written to it.
C17_Witness ==
  /\ ret.op = "insert" /\ ret.data # <<>> /\ ~sv.panic
  /\ \E b \in sv.map :
        /\ b.end < ret.addr \/ b.start > LastInsertRange.end
        /\ b.key < sv.key_counter - 1
        /\ sv.data[b.key] = Block(EntryRange(b), Expected(EntryRange(b)))

\* C18: buffer resync only shrinks.  In every non-empty insert into a
\* reachable state, at each resize_block call of the split and of the
\* resize loop the key is in the Block Store, the target range lies inside
\* the range recorded for the block, so that neither offset subtraction
\* underflows (the call does the same with and without overflow checks)
\* and the copied part lies inside the buffer, and after the call the
\* buffer is as long as the range and no longer than before.
C18_ResizeShrinks ==
  ~sv.panic =>
     \A n \in Lens, s \in Addrs :
        s + n <= MaxAddr =>
           \A calls \in {ResizeCalls(sv, Range(s, s + n), Fill(n), TRUE)} :
              \A i \in 1..Len(calls) :
                 \A c \in {calls[i]} :
                    /\ c.key \in DOMAIN c.before.data
                    /\ \A recorded \in {c.before.data[c.key]} :
                          /\ recorded.range.start <= c.range.start
                          /\ c.range.end <= recorded.range.end
                          /\ c.range.start - recorded.range.start >= 0
                          /\ c.range.end - recorded.range.start >= 0
                          /\ SliceOk(recorded.vec,
                                     cast_range(sub_range(c.range, recorded.range.start)))
                          /\ \A after \in {resize_block(c.before, c.key, c.range, TRUE)} :
                                /\ ~after.panic
                                /\ resize_block(c.before, c.key, c.range, FALSE) = after
                                /\ after.data[c.key].range = c.range
                                /\ Len(after.data[c.key].vec) = c.range.end - c.range.start
                                /\ Len(after.data[c.key].vec) <= Len(recorded.vec)

\* C18's case: after the last insert, one further insert makes a
\* resize_block call that cuts the front of a buffer off (the copy is made)
\* and another makes one that cuts the back of a buffer off.
C18_Witness ==
  /\ ret.op = "insert" /\ ret.data # <<>> /\ ~sv.panic
  /\ \E n \in Lens, s \in Addrs :
        /\ s + n <= MaxAddr
        /\ \E c \in {ResizeCalls(sv, Range(s, s + n), Fill(n), TRUE)[i] :
                        i \in 1..Len(ResizeCalls(sv, Range(s, s + n), Fill(n), TRUE))} :
              c.before.data[c.key].range.start < c.range.start
  /\ \E n \in Lens, s \in Addrs :
        /\ s + n <= MaxAddr
        /\ \E c \in {ResizeCalls(sv, Range(s, s + n), Fill(n), TRUE)[i] :
                        i \in 1..Len(ResizeCalls(sv, Range(s, s + n), Fill(n), TRUE))} :
              c.range.end < c.before.data[c.key].range.end

\* The resize_block call of the split is reached: some insert into the
\* state cuts the covering block to a non-empty lower part.
SplitCallMade ==
  \E n \in Lens, s \in Addrs :
     /\ s + n <= MaxAddr
     /\ SplitCalls(sv, Range(s, s + n)) # <<>>

\* The five core invariants of a state of Range Index and Block Store.
\* 1: every index entry has a block that records its range and holds as
\* many elements.
Invariant1(st) ==
  \A e \in st.map :
     /\ e.key \in DOMAIN st.data
     /\ st.data[e.key].range = EntryRange(e)
     /\ Len(st.data[e.key].vec) = e.end - e.start
\* 2: no key belongs to two ranges.
Invariant2(st) == \A e, f \in st.map : e.key = f.key => e = f
\* 3: no two ranges are adjacent.
Invariant3(st) == \A e, f \in st.map : e.end # f.start
\* 4: no two ranges overlap.
Invariant4(st) == \A e, f \in st.map : e # f => (e.end <= f.start \/ f.end <= e.start)
\* 5: the Block Store has no key the index does not hold.
Invariant5(st) == DOMAIN st.data \subseteq {e.key : e \in st.map}

\* C19: the consistency check asserts all five core invariants: on every
\* state of index and store that violates one of the invariants 1 to 5
\* (a range or length mismatch, a key of two ranges, two adjacent ranges,
\* two overlapping ranges, a stored key the index does not hold), the
\* check aborts.
C19_CheckAssertsAllFive ==
  ret.op = "assert_invariants" =>
     (~(Invariant1(sv) /\ Invariant2(sv) /\ Invariant3(sv)
          /\ Invariant4(sv) /\ Invariant5(sv)) => ret.panicked)

\* What does hold: the check aborts exactly on the states that violate
\* invariant 1 or invariant 2.
CheckAssertsOneAndTwo ==
  ret.op = "assert_invariants" =>
     /\ ret.panicked <=> ~(Invariant1(sv) /\ Invariant2(sv))
     /\ ret.panicked = sv.panic

\* The check returns on a state with two adjacent ranges, and on a state
\* with a stored key the index does not hold.
CheckMissesAdjacent ==
  ret.op = "assert_invariants" /\ ~ret.panicked /\ ~Invariant3(sv) /\ Invariant5(sv)
CheckMissesGarbage ==
  ret.op = "assert_invariants" /\ ~ret.panicked /\ Invariant3(sv) /\ ~Invariant5(sv)

====
